---- MODULE Spec2Model ----
(***************************************************************************)
(* LockBox - a Solana savings vault.                                       *)
(*                                                                         *)
(* The state is the set of on-chain accounts the program owns (one LockBox *)
(* record per owner at the address getLockBoxPda(owner), one vault holding *)
(* the lamports at getVaultPda(lockbox)) and the owners' wallets.  Every   *)
(* action is one transaction: an instruction built by a client (the React  *)
(* hooks or the test-suite) from an owner account, a signer, a lockbox     *)
(* address and an amount, validated and applied atomically.                *)
(*                                                                         *)
(* Amounts are in whole SOL; transaction fees and rent are left out.       *)
(***************************************************************************)
EXTENDS Integers, FiniteSets, Sequences, TLC

\* ------------------------------------------------------------------ bounds
\* largest target_amount a client submits (0 is submitted too)
MaxTarget == 2
\* lamports airdropped to every test user before the first transaction
InitialFunds == 2
\* largest deposit / withdraw amount a client submits (0 is submitted too)
MaxAmount == 2
\* the cluster clock (unix time) read by initialize while the transactions of
\* a run land
MaxTime == 1
\* lamports airdropped to every user of the scripted scenarios
ScenarioFunds == 5

\* --------------------------------------------------------------- constants
\* the target of Alice's LockBox (5 SOL)
AliceTarget == 5
\* the target of Charlie's LockBox (3 SOL)
CharlieTarget == 3

\* --------------------------------------------------------------- identities
Identities == {"alice", "bob"}

\* (variant: the seeds leave the owner key out, one address for every owner)
getLockBoxPdaShared(owner) == <<"lockbox", "alice">>

\* PublicKey.findProgramAddressSync(["lockbox", owner], programId)
getLockBoxPda(owner) == <<"lockbox", owner>>

\* (variant: the seeds leave the lockbox key out, one vault for every LockBox)
getVaultPdaShared(lockbox) == <<"vault", <<"lockbox", "alice">>>>

\* PublicKey.findProgramAddressSync(["vault", lockbox], programId)
getVaultPda(lockbox) == <<"vault", lockbox>>

LockBoxAddrs == {getLockBoxPda(o) : o \in Identities}
VaultAddrs == {getVaultPda(l) : l \in LockBoxAddrs}

Targets == 0..MaxTarget
Amounts == 0..MaxAmount
Timestamps == {MaxTime}

\* An address that holds no LockBox account (never created, or closed).
NoAccount ==
    [initialized |-> FALSE, owner |-> "none", targetAmount |-> 0,
     currentBalance |-> 0, createdAt |-> 0, hasReachedTarget |-> FALSE]

\* The fields of an existing LockBox account.
LockBoxAccount(owner, targetAmount, currentBalance, createdAt, hasReachedTarget) ==
    [initialized |-> TRUE, owner |-> owner, targetAmount |-> targetAmount,
     currentBalance |-> currentBalance, createdAt |-> createdAt,
     hasReachedTarget |-> hasReachedTarget]

VARIABLES
    lockBox,    \* LockBoxAddrs -> the LockBox account at that address
    vault,      \* VaultAddrs   -> lamports held by the vault
    wallet,     \* Identities   -> lamports of the user's own account
    last,       \* the last transaction submitted and its outcome
    reachedOnce, \* history: LockBoxAddrs -> the record there has had
                \* currentBalance >= targetAmount at some time since its creation
    journal,    \* history, kept only when journal.on: per address, the sum
                \* of the deposits into the record since its creation and
                \* whether the last record there was deleted
    inflight,   \* Sessions -> the transaction the session has sent and the
                \* cluster has not executed yet
    cache       \* Identities -> the get-lockbox entry for the own address in
                \* the query cache of the identity's client

vars == <<lockBox, vault, wallet, last, reachedOnce, journal, inflight, cache>>

\* The query has not run yet: no entry under its key.
NoEntry == [present |-> FALSE, invalidated |-> FALSE, data |-> [found |-> FALSE]]

\* The browser sessions of one wallet, each running the mutation hooks.
Sessions == {"tab1", "tab2"}

\* The session has nothing in flight.
Idle == [op |-> "none", amount |-> 0]

\* Nothing has been submitted yet.
NoReceipt ==
    [op |-> "none", owner |-> "none", signer |-> "none",
     lockbox |-> <<"lockbox", "none">>, amount |-> 0, result |-> "none",
     before |-> NoAccount, reachedBefore |-> FALSE,
     vaultBefore |-> 0, walletBefore |-> 0, untouched |-> TRUE,
     deletedBefore |-> FALSE,
     data |-> [found |-> FALSE],
     cached |-> NoEntry,
     world |-> [lockBox |-> [l \in LockBoxAddrs |-> NoAccount],
                vault |-> [v \in VaultAddrs |-> 0],
                wallet |-> [o \in Identities |-> 0]]]

\* One step of a scripted scenario: the request (op, with an amount among
\* amounts) and what it is to yield: the result, whether the record exists
\* afterwards, its currentBalance and hasReachedTarget, and the lamports the
\* owner's wallet gains by it.
Step(op, amounts, result, exists, balance, reached, gain) ==
    [op |-> op, amounts |-> amounts, result |-> result, exists |-> exists,
     balance |-> balance, reached |-> reached, gain |-> gain]

\* Alice's LockBox from creation to closing: save 2 + 2, be refused a
\* withdrawal, reach the 5 SOL, withdraw 2 and 1, be refused the closing,
\* withdraw the rest and close.
Savings ==
    << Step("initialize", {AliceTarget}, "Ok", TRUE, 0, FALSE, 0),
       Step("deposit", {2}, "Ok", TRUE, 2, FALSE, -2),
       Step("deposit", {2}, "Ok", TRUE, 4, FALSE, -2),
       Step("withdraw", 1..MaxAmount, "TargetNotReached", TRUE, 4, FALSE, 0),
       Step("deposit", {1}, "Ok", TRUE, 5, TRUE, -1),
       Step("withdraw", {2}, "Ok", TRUE, 3, TRUE, 2),
       Step("withdraw", {1}, "Ok", TRUE, 2, TRUE, 1),
       Step("close", {0}, "InsufficientBalance", TRUE, 2, TRUE, 0),
       Step("withdraw", {2}, "Ok", TRUE, 0, TRUE, 2),
       Step("close", {0}, "Ok", FALSE, 0, FALSE, 0) >>

\* Charlie's LockBox: 2 of 3 SOL saved, taken out by emergencyWithdraw, and
\* the closed account used again.
Emergency ==
    << Step("initialize", {CharlieTarget}, "Ok", TRUE, 0, FALSE, 0),
       Step("deposit", {2}, "Ok", TRUE, 2, FALSE, -2),
       Step("emergencyWithdraw", {0}, "Ok", FALSE, 0, FALSE, 2),
       Step("emergencyWithdraw", {0}, "NotFound", FALSE, 0, FALSE, 0),
       Step("deposit", 1..MaxAmount, "NotFound", FALSE, 0, FALSE, 0) >>

\* The position in script after a request (op, amount) on a LockBox found as
\* box: one further when the request is the script's next one, 1 when it
\* starts the script over on an address without a record, 0 otherwise.
Advance(script, pos, op, amount, box) ==
    IF pos < Len(script) /\ (pos > 0 \/ ~box.initialized)
       /\ op = script[pos + 1].op /\ amount \in script[pos + 1].amounts
    THEN pos + 1
    ELSE IF ~box.initialized /\ op = script[1].op /\ amount \in script[1].amounts
    THEN 1
    ELSE 0

\* The journal of a cluster on which nothing has happened.  For the record at
\* l since it was created: deposits[l] is the sum of the successful deposits
\* and depositsOnly[l] says that no withdraw has changed its balance;
\* deleted[l] holds from a successful emergencyWithdraw or close at l until
\* the next successful initialize there.  When scripted, savings[l] and
\* emergency[l] are the number of steps of Savings and of Emergency that the
\* latest requests on l have followed.
EmptyJournal(on, scripted) ==
    [on |-> on,
     scripted |-> scripted,
     savings |-> [l \in LockBoxAddrs |-> 0],
     emergency |-> [l \in LockBoxAddrs |-> 0],
     deposits |-> [l \in LockBoxAddrs |-> 0],
     depositsOnly |-> [l \in LockBoxAddrs |-> TRUE],
     deleted |-> [l \in LockBoxAddrs |-> FALSE]]

Journalled(op, lockbox, amount, result) ==
    LET tallied ==
            IF ~journal.on \/ result # "Ok" THEN journal
            ELSE IF op = "deposit" THEN
                [journal EXCEPT !.deposits[lockbox] =
                                    IF journal.depositsOnly[lockbox] THEN @ + amount ELSE @]
            ELSE IF op = "withdraw" THEN
                [journal EXCEPT !.deposits[lockbox] = 0, !.depositsOnly[lockbox] = FALSE]
            ELSE
                [journal EXCEPT !.deposits[lockbox] = 0,
                                !.depositsOnly[lockbox] = TRUE,
                                !.deleted[lockbox] = op \in {"emergencyWithdraw", "close"}]
    IN  IF ~journal.scripted THEN tallied
        ELSE [tallied EXCEPT
                !.savings[lockbox] = Advance(Savings, @, op, amount, lockBox[lockbox]),
                !.emergency[lockbox] = Advance(Emergency, @, op, amount, lockBox[lockbox])]

Init ==
    /\ lockBox = [l \in LockBoxAddrs |-> NoAccount]
    /\ vault = [v \in VaultAddrs |-> 0]
    /\ wallet = [o \in Identities |-> InitialFunds]
    /\ last = NoReceipt
    /\ reachedOnce = [l \in LockBoxAddrs |-> FALSE]
    /\ journal = EmptyJournal(FALSE, FALSE)
    /\ inflight = [s \in Sessions |-> Idle]
    /\ cache = [o \in Identities |-> NoEntry]

\* What is recorded of every transaction, once its effect is decided: the
\* request, the outcome the cluster reported, what the request found (the
\* targeted record, its vault, the signer's wallet, and all the accounts as
\* world) and whether any account changed.  No operation deletes a record and creates one in the same
\* transaction, so a record present before and after is the same record.
Logged(op, owner, signer, lockbox, amount, result) ==
    /\ last' =
          [op |-> op, owner |-> owner, signer |-> signer, lockbox |-> lockbox,
           amount |-> amount, result |-> result,
           before |-> lockBox[lockbox],
           reachedBefore |-> reachedOnce[lockbox],
           vaultBefore |-> vault[getVaultPda(lockbox)],
           walletBefore |-> wallet[signer],
           untouched |-> (lockBox' = lockBox /\ vault' = vault /\ wallet' = wallet),
           deletedBefore |-> journal.deleted[lockbox],
           data |-> [found |-> FALSE],
           cached |-> IF signer \in Identities THEN cache[signer] ELSE NoEntry,
           world |-> [lockBox |-> lockBox, vault |-> vault, wallet |-> wallet]]
    /\ journal' = Journalled(op, lockbox, amount, result)
    /\ reachedOnce' =
          [l \in LockBoxAddrs |->
              /\ lockBox'[l].initialized
              /\ \/ lockBox[l].initialized /\ reachedOnce[l]
                 \/ lockBox'[l].currentBalance >= lockBox'[l].targetAmount]

\* ------------------------------------------------------- account validation
\* (variant: the lockbox account is not tied to the signing owner)
AuthorizedSignerOnly(owner, signer, lockbox) ==
    signer = owner

\* (variant: the owner account is not required to sign)
AuthorizedLockboxOnly(owner, signer, lockbox) ==
    lockbox = getLockBoxPda(owner)

\* The owner account of the instruction must have signed the transaction and
\* the lockbox account must be the one derived from it.
Authorized(owner, signer, lockbox) ==
    /\ signer = owner
    /\ lockbox = getLockBoxPda(owner)

\* (variant: the lockbox account is not checked to be initialized)
AccountAlwaysExists(box) ==
    TRUE

\* A deposit for an owner whose LockBox was never created is rejected.
AccountExists(box) ==
    box.initialized

\* resolve + authorization, common to deposit, withdraw, emergencyWithdraw
\* and close: the record must exist and belong to the signing owner.
Resolve(box, owner, signer, lockbox) ==
    IF signer # owner THEN "Unauthorized"
    ELSE IF ~AccountExists(box) THEN "NotFound"
    ELSE IF ~Authorized(owner, signer, lockbox) THEN "Unauthorized"
    ELSE "Ok"

\* ------------------------------------------------------------------ create
\* (variant: no check of the target)
AnyTargetIsValid(targetAmount) ==
    TRUE

\* initializeLockbox(0) is rejected with InvalidTargetAmount.
TargetIsValid(targetAmount) ==
    targetAmount > 0

InitializeResult(box, owner, signer, lockbox, targetAmount) ==
    IF ~Authorized(owner, signer, lockbox) THEN "Unauthorized"
    ELSE IF ~TargetIsValid(targetAmount) THEN "InvalidTargetAmount"
    ELSE IF box.initialized THEN "AlreadyExists"
    ELSE "Ok"

\* (variant: the balance field is initialised from the target)
NewLockBoxFunded(owner, targetAmount, now) ==
    LockBoxAccount(owner, targetAmount, targetAmount, now, FALSE)

\* The record a successful initialize writes.
NewLockBox(owner, targetAmount, now) ==
    LockBoxAccount(owner, targetAmount, 0, now, FALSE)

InitializeLockbox(owner, signer, lockbox, targetAmount) ==
    LET res == InitializeResult(lockBox[lockbox], owner, signer, lockbox, targetAmount) IN
    /\ IF res = "Ok"
       THEN \E now \in Timestamps :
                lockBox' = [lockBox EXCEPT ![lockbox] = NewLockBox(owner, targetAmount, now)]
       ELSE UNCHANGED lockBox
    /\ UNCHANGED <<vault, wallet>>
    /\ Logged("initialize", owner, signer, lockbox, targetAmount, res)

\* ----------------------------------------------------------------- deposit
\* (variant: an amount of 0 is accepted)
AnyDepositAmountIsValid(amount) ==
    TRUE

\* deposit(0) is rejected with InvalidDepositAmount.
DepositAmountIsValid(amount) ==
    amount > 0

\* (variant: the transfer is not backed by the wallet's lamports)
WalletAlwaysCovers(funds, amount) ==
    TRUE

\* The system transfer out of the owner's wallet needs the lamports to be there.
WalletCovers(funds, amount) ==
    amount <= funds

DepositResult(box, funds, owner, signer, lockbox, amount) ==
    LET acc == Resolve(box, owner, signer, lockbox) IN
    IF acc # "Ok" THEN acc
    ELSE IF ~DepositAmountIsValid(amount) THEN "InvalidDepositAmount"
    ELSE IF ~WalletCovers(funds, amount) THEN "InsufficientFunds"
    ELSE "Ok"

\* (variant: the comparison with the target is strict)
ReachedAfterDepositStrict(box, newBalance) ==
    box.hasReachedTarget \/ newBalance > box.targetAmount

\* (variant: the flag is recomputed from the balance on every deposit)
ReachedAfterDepositRecomputed(box, newBalance) ==
    newBalance >= box.targetAmount

\* has_reached_target after a deposit: raised once the balance reaches the
\* target.
ReachedAfterDeposit(box, newBalance) ==
    box.hasReachedTarget \/ newBalance >= box.targetAmount

\* (variant: the balance is set to the amount instead of increased by it)
DepositedOverwrite(box, amount) ==
    [box EXCEPT !.currentBalance = amount,
                !.hasReachedTarget = ReachedAfterDeposit(box, amount)]

\* (variant: the amount is added to the target instead of the balance)
DepositedIntoTarget(box, amount) ==
    [box EXCEPT !.targetAmount = box.targetAmount + amount,
                !.hasReachedTarget = ReachedAfterDeposit(box, box.currentBalance)]

\* The record after a successful deposit.
Deposited(box, amount) ==
    [box EXCEPT !.currentBalance = box.currentBalance + amount,
                !.hasReachedTarget = ReachedAfterDeposit(box, box.currentBalance + amount)]

\* (variant: the record is written before the transfer and stays written when
\* the transfer fails)
DepositNoRollback(owner, signer, lockbox, amount) ==
    LET res == DepositResult(lockBox[lockbox], wallet[signer], owner, signer, lockbox, amount) IN
    /\ IF res = "Ok"
       THEN /\ lockBox' = [lockBox EXCEPT ![lockbox] = Deposited(@, amount)]
            /\ wallet' = [wallet EXCEPT ![owner] = @ - amount]
            /\ vault' = [vault EXCEPT ![getVaultPda(lockbox)] = @ + amount]
       ELSE IF res = "InsufficientFunds"
       THEN /\ lockBox' = [lockBox EXCEPT ![lockbox] = Deposited(@, amount)]
            /\ UNCHANGED <<vault, wallet>>
       ELSE UNCHANGED <<lockBox, vault, wallet>>
    /\ Logged("deposit", owner, signer, lockbox, amount, res)

Deposit(owner, signer, lockbox, amount) ==
    LET res == DepositResult(lockBox[lockbox], wallet[signer], owner, signer, lockbox, amount) IN
    /\ IF res = "Ok"
       THEN /\ lockBox' = [lockBox EXCEPT ![lockbox] = Deposited(@, amount)]
            /\ wallet' = [wallet EXCEPT ![owner] = @ - amount]
            /\ vault' = [vault EXCEPT ![getVaultPda(lockbox)] = @ + amount]
       ELSE UNCHANGED <<lockBox, vault, wallet>>
    /\ Logged("deposit", owner, signer, lockbox, amount, res)

\* ---------------------------------------------------------------- withdraw
\* (variant: no gate)
WithdrawAlwaysUnlocked(box) ==
    TRUE

\* The gate of withdraw: 4 SOL of 5 is locked (TargetNotReached); once 5 SOL
\* were reached, 3 SOL of 5 and 2 SOL of 5 are not.
WithdrawUnlocked(box) ==
    box.hasReachedTarget

\* (variant: no check of the amount against the balance)
BalanceAlwaysCovers(box, amount) ==
    TRUE

\* withdraw(currentBalance + 1000) is rejected with InsufficientBalance.
BalanceCovers(box, amount) ==
    amount <= box.currentBalance

\* (variant: an amount of 0 is accepted)
AnyWithdrawAmountIsValid(amount) ==
    TRUE

\* withdraw requires 0 < amount.
WithdrawAmountIsValid(amount) ==
    amount > 0

WithdrawResult(box, owner, signer, lockbox, amount) ==
    LET acc == Resolve(box, owner, signer, lockbox) IN
    IF acc # "Ok" THEN acc
    ELSE IF ~WithdrawUnlocked(box) THEN "TargetNotReached"
    ELSE IF ~WithdrawAmountIsValid(amount) \/ ~BalanceCovers(box, amount)
         THEN "InsufficientBalance"
    ELSE "Ok"

\* (variant: the flag is recomputed from the balance on every withdraw)
ReachedAfterWithdrawRecomputed(box, newBalance) ==
    newBalance >= box.targetAmount

\* has_reached_target after a withdraw: the test-suite withdraws again with
\* the balance under the target, so a withdraw does not lower the flag.
ReachedAfterWithdraw(box, newBalance) ==
    box.hasReachedTarget

\* The record after a successful withdraw.
Withdrawn(box, amount) ==
    [box EXCEPT !.currentBalance = box.currentBalance - amount,
                !.hasReachedTarget = ReachedAfterWithdraw(box, box.currentBalance - amount)]

\* (variant: the lamports leave the vault and do not arrive)
PaidOutNowhere(funds, amount) ==
    funds

\* The owner's wallet after the vault paid amount out to it.
PaidOut(funds, amount) ==
    funds + amount

Withdraw(owner, signer, lockbox, amount) ==
    LET res == WithdrawResult(lockBox[lockbox], owner, signer, lockbox, amount) IN
    /\ IF res = "Ok"
       THEN /\ lockBox' = [lockBox EXCEPT ![lockbox] = Withdrawn(@, amount)]
            /\ vault' = [vault EXCEPT ![getVaultPda(lockbox)] = @ - amount]
            /\ wallet' = [wallet EXCEPT ![owner] = PaidOut(@, amount)]
       ELSE UNCHANGED <<lockBox, vault, wallet>>
    /\ Logged("withdraw", owner, signer, lockbox, amount, res)

\* ------------------------------------------------------- emergency withdraw
\* (variant: the record is emptied but the account is left open)
ClosedKeepsData(box) ==
    [box EXCEPT !.currentBalance = 0]

\* The account after emergencyWithdraw or closeLockbox: it does not exist.
Closed(box) ==
    NoAccount

\* (variant: emergencyWithdraw is gated by the target like withdraw)
EmergencyAllowedOnceReached(box) ==
    box.currentBalance > 0 /\ box.hasReachedTarget

\* (variant: no check of the balance)
EmergencyAlwaysAllowed(box) ==
    TRUE

\* emergencyWithdraw on a never-funded LockBox is rejected with
\* InsufficientBalance.
EmergencyAllowed(box) ==
    box.currentBalance > 0

EmergencyWithdrawResult(box, owner, signer, lockbox) ==
    LET acc == Resolve(box, owner, signer, lockbox) IN
    IF acc # "Ok" THEN acc
    ELSE IF ~EmergencyAllowed(box) THEN "InsufficientBalance"
    ELSE "Ok"

EmergencyWithdraw(owner, signer, lockbox) ==
    LET res == EmergencyWithdrawResult(lockBox[lockbox], owner, signer, lockbox) IN
    /\ IF res = "Ok"
       THEN /\ vault' = [vault EXCEPT ![getVaultPda(lockbox)] = @ - lockBox[lockbox].currentBalance]
            /\ wallet' = [wallet EXCEPT ![owner] = PaidOut(@, lockBox[lockbox].currentBalance)]
            /\ lockBox' = [lockBox EXCEPT ![lockbox] = Closed(@)]
       ELSE UNCHANGED <<lockBox, vault, wallet>>
    /\ Logged("emergencyWithdraw", owner, signer, lockbox, 0, res)

\* ------------------------------------------------------------------- close
\* (variant: no check of the balance)
CloseAlwaysAllowed(box) ==
    TRUE

\* closeLockbox needs an empty vault (InsufficientBalance otherwise).
CloseAllowed(box) ==
    box.currentBalance = 0

CloseResult(box, owner, signer, lockbox) ==
    LET acc == Resolve(box, owner, signer, lockbox) IN
    IF acc # "Ok" THEN acc
    ELSE IF ~CloseAllowed(box) THEN "InsufficientBalance"
    ELSE "Ok"

CloseLockbox(owner, signer, lockbox) ==
    LET res == CloseResult(lockBox[lockbox], owner, signer, lockbox) IN
    /\ IF res = "Ok"
       THEN lockBox' = [lockBox EXCEPT ![lockbox] = Closed(@)]
       ELSE UNCHANGED lockBox
    /\ UNCHANGED <<vault, wallet>>
    /\ Logged("close", owner, signer, lockbox, 0, res)

\* -------------------------------------------------------------------- query
\* (variant: a missing account is not told from an existing one)
queryFnUnchecked(address) ==
    LET lockboxPda == getLockBoxPda(address)
        lockboxAccount == IF address \in Identities THEN lockBox[lockboxPda] ELSE NoAccount
    IN  [found |-> TRUE,
         data |-> [owner |-> lockboxAccount.owner,
                   targetAmount |-> lockboxAccount.targetAmount,
                   currentBalance |-> lockboxAccount.currentBalance,
                   createdAt |-> lockboxAccount.createdAt,
                   hasReachedTarget |-> lockboxAccount.hasReachedTarget],
         address |-> lockboxPda]

\* queryFn of useGetLockBox: null without an address and when the fetch of
\* the account at getLockBoxPda(address) throws (the account does not
\* exist), else the fields of the account and its address.
queryFn(address) ==
    IF address \notin Identities THEN [found |-> FALSE]
    ELSE LET lockboxPda == getLockBoxPda(address)
             lockboxAccount == lockBox[lockboxPda]
         IN  IF ~lockboxAccount.initialized THEN [found |-> FALSE]
             ELSE [found |-> TRUE,
                   data |-> [owner |-> lockboxAccount.owner,
                             targetAmount |-> lockboxAccount.targetAmount,
                             currentBalance |-> lockboxAccount.currentBalance,
                             createdAt |-> lockboxAccount.createdAt,
                             hasReachedTarget |-> lockboxAccount.hasReachedTarget],
                   address |-> lockboxPda]

\* The query runs: it reads and writes no account.
useGetLockBox(address) ==
    /\ last' = [NoReceipt EXCEPT
                    !.op = "getLockBox", !.owner = address, !.signer = address,
                    !.lockbox = getLockBoxPda(address), !.result = "Ok",
                    !.data = queryFn(address),
                    !.world = [lockBox |-> lockBox, vault |-> vault, wallet |-> wallet]]
    /\ UNCHANGED <<lockBox, vault, wallet, reachedOnce, journal>>

\* ------------------------------------------------- transactions as functions
\* The accounts w (lockBox, vault, wallet) after one transaction lands on
\* them: what the five handlers above do, as a function of the accounts.
Applied(w, op, owner, signer, lockbox, amount, now) ==
    LET box == w.lockBox[lockbox]
        pool == getVaultPda(lockbox)
    IN  IF op = "initialize" THEN
            IF InitializeResult(box, owner, signer, lockbox, amount) = "Ok"
            THEN [w EXCEPT !.lockBox[lockbox] = NewLockBox(owner, amount, now)]
            ELSE w
        ELSE IF op = "deposit" THEN
            IF DepositResult(box, w.wallet[signer], owner, signer, lockbox, amount) = "Ok"
            THEN [w EXCEPT !.lockBox[lockbox] = Deposited(box, amount),
                           !.wallet[owner] = @ - amount,
                           !.vault[pool] = @ + amount]
            ELSE w
        ELSE IF op = "withdraw" THEN
            IF WithdrawResult(box, owner, signer, lockbox, amount) = "Ok"
            THEN [w EXCEPT !.lockBox[lockbox] = Withdrawn(box, amount),
                           !.vault[pool] = @ - amount,
                           !.wallet[owner] = PaidOut(@, amount)]
            ELSE w
        ELSE IF op = "emergencyWithdraw" THEN
            IF EmergencyWithdrawResult(box, owner, signer, lockbox) = "Ok"
            THEN [w EXCEPT !.vault[pool] = @ - box.currentBalance,
                           !.wallet[owner] = PaidOut(@, box.currentBalance),
                           !.lockBox[lockbox] = Closed(box)]
            ELSE w
        ELSE IF op = "close" THEN
            IF CloseResult(box, owner, signer, lockbox) = "Ok"
            THEN [w EXCEPT !.lockBox[lockbox] = Closed(box)]
            ELSE w
        ELSE w

\* ------------------------------------------------------------ specification
\* The account sets the clients submit: .accounts({owner}) with the lockbox
\* derived from it, signed by the owner or by somebody else, and
\* .accounts({lockbox, owner, vault}) naming another owner's lockbox, signed by
\* the owner account.
Requests ==
    {<<o, s, getLockBoxPda(o)>> : o \in Identities, s \in Identities}
        \cup {<<o, o, l>> : o \in Identities, l \in LockBoxAddrs}

Next ==
    \/ \E r \in Requests, t \in Targets : InitializeLockbox(r[1], r[2], r[3], t)
          /\ UNCHANGED <<inflight, cache>>
    \/ \E r \in Requests, a \in Amounts : Deposit(r[1], r[2], r[3], a)
          /\ UNCHANGED <<inflight, cache>>
    \/ \E r \in Requests, a \in Amounts : Withdraw(r[1], r[2], r[3], a)
          /\ UNCHANGED <<inflight, cache>>
    \/ \E r \in Requests : EmergencyWithdraw(r[1], r[2], r[3])
          /\ UNCHANGED <<inflight, cache>>
    \/ \E r \in Requests : CloseLockbox(r[1], r[2], r[3])
          /\ UNCHANGED <<inflight, cache>>

Spec == Init /\ [][Next]_vars

\* The owners alone, each submitting for the own LockBox (the hooks'
\* requests with address = wallet.publicKey), with the journal kept.
OwnerRequests == {<<o, o, getLockBoxPda(o)>> : o \in Identities}

OwnerInit ==
    /\ lockBox = [l \in LockBoxAddrs |-> NoAccount]
    /\ vault = [v \in VaultAddrs |-> 0]
    /\ wallet = [o \in Identities |-> InitialFunds]
    /\ last = NoReceipt
    /\ reachedOnce = [l \in LockBoxAddrs |-> FALSE]
    /\ journal = EmptyJournal(TRUE, FALSE)
    /\ inflight = [s \in Sessions |-> Idle]
    /\ cache = [o \in Identities |-> NoEntry]

OwnerNext ==
    \/ \E r \in OwnerRequests, t \in Targets : InitializeLockbox(r[1], r[2], r[3], t)
          /\ UNCHANGED <<inflight, cache>>
    \/ \E r \in OwnerRequests, a \in Amounts : Deposit(r[1], r[2], r[3], a)
          /\ UNCHANGED <<inflight, cache>>
    \/ \E r \in OwnerRequests, a \in Amounts : Withdraw(r[1], r[2], r[3], a)
          /\ UNCHANGED <<inflight, cache>>
    \/ \E r \in OwnerRequests : EmergencyWithdraw(r[1], r[2], r[3])
          /\ UNCHANGED <<inflight, cache>>
    \/ \E r \in OwnerRequests : CloseLockbox(r[1], r[2], r[3])
          /\ UNCHANGED <<inflight, cache>>
    \/ \E address \in Identities \cup {"none"} : useGetLockBox(address)
          /\ UNCHANGED <<inflight, cache>>

OwnerSpec == OwnerInit /\ [][OwnerNext]_vars

\* The users of the scripted scenarios: funded for them, choosing the
\* targets of Alice and of Charlie, free to submit any request for the own
\* LockBox at any time, with the journal following Savings and Emergency.
ScenarioTargets == {CharlieTarget, AliceTarget}

ScenarioInit ==
    /\ lockBox = [l \in LockBoxAddrs |-> NoAccount]
    /\ vault = [v \in VaultAddrs |-> 0]
    /\ wallet = [o \in Identities |-> ScenarioFunds]
    /\ last = NoReceipt
    /\ reachedOnce = [l \in LockBoxAddrs |-> FALSE]
    /\ journal = EmptyJournal(FALSE, TRUE)
    /\ inflight = [s \in Sessions |-> Idle]
    /\ cache = [o \in Identities |-> NoEntry]

ScenarioNext ==
    \/ \E r \in OwnerRequests, t \in ScenarioTargets : InitializeLockbox(r[1], r[2], r[3], t)
          /\ UNCHANGED <<inflight, cache>>
    \/ \E r \in OwnerRequests, a \in Amounts : Deposit(r[1], r[2], r[3], a)
          /\ UNCHANGED <<inflight, cache>>
    \/ \E r \in OwnerRequests, a \in Amounts : Withdraw(r[1], r[2], r[3], a)
          /\ UNCHANGED <<inflight, cache>>
    \/ \E r \in OwnerRequests : EmergencyWithdraw(r[1], r[2], r[3])
          /\ UNCHANGED <<inflight, cache>>
    \/ \E r \in OwnerRequests : CloseLockbox(r[1], r[2], r[3])
          /\ UNCHANGED <<inflight, cache>>

ScenarioSpec == ScenarioInit /\ [][ScenarioNext]_vars

\* Sessions of one owner with transactions in flight: a session sends a
\* transaction for the owner's LockBox while those of the other sessions
\* are still on their way, and the cluster executes them one at a time in
\* the order in which they arrive.
Holder == "alice"

ConcurrentInit ==
    /\ lockBox = [l \in LockBoxAddrs |-> NoAccount]
    /\ vault = [v \in VaultAddrs |-> 0]
    /\ wallet = [o \in Identities |-> InitialFunds]
    /\ last = NoReceipt
    /\ reachedOnce = [l \in LockBoxAddrs |-> FALSE]
    /\ journal = EmptyJournal(FALSE, FALSE)
    /\ inflight = [s \in Sessions |-> Idle]
    /\ cache = [o \in Identities |-> NoEntry]

\* mutationFn up to .rpc(): the transaction carries the instruction, its
\* amount and the accounts derived from the address; nothing is read.
Submit(s, op, amount) ==
    /\ inflight[s] = Idle
    /\ inflight' = [inflight EXCEPT ![s] = [op |-> op, amount |-> amount]]
    /\ UNCHANGED <<lockBox, vault, wallet, last, reachedOnce, journal, cache>>

\* (variant: two transactions in flight execute at once, both on the
\* accounts as they were, the record written by s remaining)
LandRacing(s) ==
    \E t \in Sessions \ {s} :
        LET r == inflight[s]
            q == inflight[t]
            l == getLockBoxPda(Holder)
            w == [lockBox |-> lockBox, vault |-> vault, wallet |-> wallet]
            ws == Applied(w, r.op, Holder, Holder, l, r.amount, MaxTime)
            wt == Applied(w, q.op, Holder, Holder, l, q.amount, MaxTime)
        IN  /\ r.op # "none" /\ q.op # "none"
            /\ lockBox' = ws.lockBox
            /\ vault' = [v \in VaultAddrs |-> ws.vault[v] + wt.vault[v] - vault[v]]
            /\ wallet' = [o \in Identities |-> ws.wallet[o] + wt.wallet[o] - wallet[o]]
            /\ last' = [NoReceipt EXCEPT !.op = r.op, !.owner = Holder, !.signer = Holder,
                                         !.lockbox = l, !.amount = r.amount,
                                         !.result = "Ok", !.before = lockBox[l],
                                         !.world = w]
            /\ inflight' = [inflight EXCEPT ![s] = Idle, ![t] = Idle]
            /\ UNCHANGED <<reachedOnce, journal, cache>>

\* The transaction of session s reaches the cluster and is executed: the
\* whole handler runs on the accounts as they are now.
Land(s) ==
    LET r == inflight[s]
        l == getLockBoxPda(Holder)
    IN  /\ r.op # "none"
        /\ inflight' = [inflight EXCEPT ![s] = Idle]
        /\ UNCHANGED cache
        /\ \/ r.op = "initialize" /\ InitializeLockbox(Holder, Holder, l, r.amount)
           \/ r.op = "deposit" /\ Deposit(Holder, Holder, l, r.amount)
           \/ r.op = "withdraw" /\ Withdraw(Holder, Holder, l, r.amount)
           \/ r.op = "emergencyWithdraw" /\ EmergencyWithdraw(Holder, Holder, l)
           \/ r.op = "close" /\ CloseLockbox(Holder, Holder, l)

ConcurrentNext ==
    \/ \E s \in Sessions, t \in Targets : Submit(s, "initialize", t)
    \/ \E s \in Sessions, a \in Amounts : Submit(s, "deposit", a)
    \/ \E s \in Sessions, a \in Amounts : Submit(s, "withdraw", a)
    \/ \E s \in Sessions : Submit(s, "emergencyWithdraw", 0)
    \/ \E s \in Sessions : Submit(s, "close", 0)
    \/ \E s \in Sessions : Land(s)

ConcurrentSpec == ConcurrentInit /\ [][ConcurrentNext]_vars

\* One client: the wallet of Holder connected, the hooks called with
\* address = the wallet's key, one endpoint, and the query cache of the
\* client kept.
ClientInit ==
    /\ lockBox = [l \in LockBoxAddrs |-> NoAccount]
    /\ vault = [v \in VaultAddrs |-> 0]
    /\ wallet = [o \in Identities |-> InitialFunds]
    /\ last = NoReceipt
    /\ reachedOnce = [l \in LockBoxAddrs |-> FALSE]
    /\ journal = EmptyJournal(FALSE, FALSE)
    /\ inflight = [s \in Sessions |-> Idle]
    /\ cache = [o \in Identities |-> NoEntry]

\* (variant: the key invalidated is not the key of the query)
onSuccessOtherKey(address) ==
    cache

\* onSuccess of the mutation hooks: invalidateQueries on the key
\* ['get-lockbox', {endpoint, address}], the key of useGetLockBox.
onSuccess(address) ==
    [cache EXCEPT ![address].invalidated = cache[address].present]

\* The mutation settles: onSuccess runs when .rpc() resolved and not when
\* it threw.
Settled(address) ==
    /\ cache' = IF last'.result = "Ok" THEN onSuccess(address) ELSE cache
    /\ UNCHANGED inflight

\* useQuery under the key of useGetLockBox: the entry is served while it is
\* there and not invalidated, else queryFn runs and its result is stored.
useQuery(address) ==
    LET entry == cache[address]
        served == entry.present /\ ~entry.invalidated
        data == IF served THEN entry.data ELSE queryFn(address)
    IN  /\ last' = [NoReceipt EXCEPT
                        !.op = "getLockBox", !.owner = address, !.signer = address,
                        !.lockbox = getLockBoxPda(address), !.result = "Ok",
                        !.data = data,
                        !.cached = entry,
                        !.world = [lockBox |-> lockBox, vault |-> vault, wallet |-> wallet]]
        /\ cache' = [cache EXCEPT ![address] =
                        [present |-> TRUE, invalidated |-> FALSE, data |-> data]]
        /\ UNCHANGED <<lockBox, vault, wallet, reachedOnce, journal, inflight>>

useInitializeLockBox(address, targetAmount) ==
    /\ InitializeLockbox(address, address, getLockBoxPda(address), targetAmount)
    /\ Settled(address)

useDeposit(address, amount) ==
    /\ Deposit(address, address, getLockBoxPda(address), amount)
    /\ Settled(address)

useWithdraw(address, amount) ==
    /\ Withdraw(address, address, getLockBoxPda(address), amount)
    /\ Settled(address)

useEmergencyWithdraw(address) ==
    /\ EmergencyWithdraw(address, address, getLockBoxPda(address))
    /\ Settled(address)

useCloseLockBox(address) ==
    /\ CloseLockbox(address, address, getLockBoxPda(address))
    /\ Settled(address)

ClientNext ==
    \/ \E t \in Targets : useInitializeLockBox(Holder, t)
    \/ \E a \in Amounts : useDeposit(Holder, a)
    \/ \E a \in Amounts : useWithdraw(Holder, a)
    \/ useEmergencyWithdraw(Holder)
    \/ useCloseLockBox(Holder)
    \/ useQuery(Holder)

ClientSpec == ClientInit /\ [][ClientNext]_vars

TypeOK ==
    /\ \A l \in LockBoxAddrs :
          \/ lockBox[l] = NoAccount
          \/ /\ lockBox[l].initialized
             /\ lockBox[l].owner \in Identities
             /\ lockBox[l].targetAmount \in Nat
             /\ lockBox[l].currentBalance \in Nat
             /\ lockBox[l].createdAt \in Timestamps
             /\ lockBox[l].hasReachedTarget \in BOOLEAN
    /\ \A v \in VaultAddrs : vault[v] \in Nat
    /\ \A o \in Identities : wallet[o] \in Nat
    /\ reachedOnce \in [LockBoxAddrs -> BOOLEAN]
    /\ journal.on \in BOOLEAN
    /\ journal.scripted \in BOOLEAN
    /\ \A l \in LockBoxAddrs :
          /\ journal.savings[l] \in 0..Len(Savings)
          /\ journal.emergency[l] \in 0..Len(Emergency)
    /\ \A l \in LockBoxAddrs :
          /\ journal.deposits[l] \in Nat
          /\ journal.depositsOnly[l] \in BOOLEAN
          /\ journal.deleted[l] \in BOOLEAN
    /\ \A o \in Identities :
          /\ cache[o].present \in BOOLEAN
          /\ cache[o].invalidated \in BOOLEAN
          /\ cache[o].data.found \in BOOLEAN
    /\ \A s \in Sessions :
          /\ inflight[s].op \in {"none", "initialize", "deposit", "withdraw",
                                "emergencyWithdraw", "close"}
          /\ inflight[s].amount \in Nat

\* ================================================================== claims
\* The transaction r was submitted by the owner, signed, for the owner's own
\* LockBox.
ByOwner(r) == Authorized(r.owner, r.signer, r.lockbox)

\* The record the last transaction targeted, as it is now.
Targeted == lockBox[last.lockbox]

\* ---------------------------------------------------------------------- C1
CustodyMatches ==
    \A l \in LockBoxAddrs :
        lockBox[l].initialized => vault[getVaultPda(l)] = lockBox[l].currentBalance

\* C1: in every reachable state the vault of every existing LockBox holds
\* exactly the record's currentBalance; a successful deposit of a raises both
\* by a and a successful withdraw of a lowers both by a.
C1_CustodyInvariant ==
    /\ CustodyMatches
    /\ (last.op = "deposit" /\ last.result = "Ok") =>
           /\ Targeted.currentBalance = last.before.currentBalance + last.amount
           /\ vault[getVaultPda(last.lockbox)] = last.vaultBefore + last.amount
    /\ (last.op = "withdraw" /\ last.result = "Ok") =>
           /\ Targeted.currentBalance = last.before.currentBalance - last.amount
           /\ vault[getVaultPda(last.lockbox)] = last.vaultBefore - last.amount

\* Both owners hold funds in their vaults and a withdraw has just succeeded.
C1_Witness ==
    /\ last.op = "withdraw" /\ last.result = "Ok"
    /\ \A l \in LockBoxAddrs : lockBox[l].initialized /\ vault[getVaultPda(l)] > 0

\* ---------------------------------------------------------------------- C2
\* C2 as stated: whenever currentBalance < targetAmount, a withdraw by the
\* owner fails with TargetNotReached and changes nothing.
C2_Original ==
    (/\ last.op = "withdraw" /\ ByOwner(last)
     /\ last.before.initialized
     /\ last.before.currentBalance < last.before.targetAmount)
    => (last.result = "TargetNotReached" /\ last.untouched)

\* C2 (amended): whenever the balance of a record has not reached its target
\* since the record was created, a withdraw by the owner of any amount fails
\* with TargetNotReached and leaves the record, the vault and the wallets
\* unchanged.
C2_LockedUntilTargetReached ==
    (/\ last.op = "withdraw" /\ ByOwner(last)
     /\ last.before.initialized
     /\ ~last.reachedBefore)
    => (last.result = "TargetNotReached" /\ last.untouched)

\* The owner asked for part of a funded, still locked balance and was refused.
C2_Witness ==
    /\ last.op = "withdraw" /\ ByOwner(last) /\ last.result = "TargetNotReached"
    /\ last.amount > 0
    /\ Targeted.currentBalance >= last.amount
    /\ Targeted.currentBalance < Targeted.targetAmount

\* ---------------------------------------------------------------------- C3
\* C3: once the balance of a record has reached its target, every later
\* withdraw by the owner of an amount a with 0 < a <= currentBalance succeeds
\* and takes a off the balance, also when the balance is under the target by
\* then.
C3_NoRelock ==
    (/\ last.op = "withdraw" /\ ByOwner(last)
     /\ last.before.initialized /\ last.reachedBefore
     /\ 0 < last.amount /\ last.amount <= last.before.currentBalance)
    => (/\ last.result = "Ok"
        /\ Targeted.initialized
        /\ Targeted.currentBalance = last.before.currentBalance - last.amount)

\* A withdraw has succeeded from a balance that was already under the target.
C3_Witness ==
    /\ last.op = "withdraw" /\ last.result = "Ok"
    /\ last.before.currentBalance < last.before.targetAmount

\* ---------------------------------------------------------------------- C4
\* C4 as stated: the stored flag equals (currentBalance >= targetAmount) in
\* every reachable state.
C4_Original ==
    \A l \in LockBoxAddrs :
        lockBox[l].initialized =>
            (lockBox[l].hasReachedTarget <=> lockBox[l].currentBalance >= lockBox[l].targetAmount)

\* C4 (amended): for every existing record the stored flag has_reached_target
\* is true exactly when currentBalance has been >= targetAmount at some time
\* since the record was created: a deposit raises it when the balance reaches
\* the target, and a withdraw that drops the balance under the target does
\* not flip it back.
C4_FlagRecordsTargetReached ==
    \A l \in LockBoxAddrs :
        lockBox[l].initialized =>
            /\ lockBox[l].hasReachedTarget <=> reachedOnce[l]
            /\ lockBox[l].currentBalance >= lockBox[l].targetAmount => lockBox[l].hasReachedTarget

\* A withdraw has dropped the balance under the target and the flag is still
\* set.
C4_Witness ==
    /\ last.op = "withdraw" /\ last.result = "Ok"
    /\ last.before.currentBalance >= last.before.targetAmount
    /\ Targeted.hasReachedTarget
    /\ Targeted.currentBalance < Targeted.targetAmount

\* ---------------------------------------------------------------------- C5
\* C5: for every record with currentBalance >= targetAmount, a withdraw by
\* the owner of any amount a with 0 < a <= currentBalance succeeds and takes
\* exactly a off the balance, the whole balance included.
C5_WithdrawAtTarget ==
    (/\ last.op = "withdraw" /\ ByOwner(last)
     /\ last.before.initialized
     /\ last.before.currentBalance >= last.before.targetAmount
     /\ 0 < last.amount /\ last.amount <= last.before.currentBalance)
    => (/\ last.result = "Ok"
        /\ Targeted.initialized
        /\ Targeted.currentBalance = last.before.currentBalance - last.amount)

\* The whole balance, which had reached the target, was withdrawn at once.
C5_Witness ==
    /\ last.op = "withdraw" /\ last.result = "Ok"
    /\ last.before.currentBalance >= last.before.targetAmount
    /\ last.amount = last.before.currentBalance
    /\ Targeted.initialized /\ Targeted.currentBalance = 0

OwnerOnlyOps == {"deposit", "withdraw", "emergencyWithdraw", "close"}

\* C7: a deposit, withdraw, emergencyWithdraw or close signed by an identity
\* other than the owner of the targeted, existing record fails with an
\* authorization error and changes no record, no vault and no wallet.
C7_OnlyOwnerMutates ==
    (/\ last.op \in OwnerOnlyOps
     /\ last.before.initialized
     /\ last.signer # last.before.owner)
    => (last.result = "Unauthorized" /\ last.untouched)

\* A signer that has a LockBox of its own was refused on the funded LockBox
\* of somebody else.
C7_Witness ==
    /\ last.op \in OwnerOnlyOps /\ last.result = "Unauthorized"
    /\ last.signer = last.owner
    /\ Targeted.initialized
    /\ Targeted.owner # last.signer
    /\ Targeted.currentBalance > 0
    /\ lockBox[getLockBoxPda(last.signer)].initialized

\* ---------------------------------------------------------------------- C8
RecordsOf(o) ==
    {l \in LockBoxAddrs : lockBox[l].initialized /\ lockBox[l].owner = o}

\* C8: for every owner and every target > 0, create succeeds when the owner
\* has no record, a create for an owner that has one fails with AlreadyExists
\* and changes nothing, and no owner ever has more than one record.
C8_CreateExclusive ==
    /\ \A o \in Identities : Cardinality(RecordsOf(o)) <= 1
    /\ (last.op = "initialize" /\ ByOwner(last) /\ last.amount > 0) =>
           \/ /\ last.result = "Ok"
              /\ ~last.before.initialized
              /\ RecordsOf(last.owner) = {last.lockbox}
           \/ /\ last.result = "AlreadyExists"
              /\ last.untouched
              /\ last.before.initialized /\ last.before.owner = last.owner

\* A second create was refused while the other owner still has no record.
C8_Witness ==
    /\ last.op = "initialize" /\ ByOwner(last) /\ last.amount > 0
    /\ last.result = "AlreadyExists"
    /\ \E o \in Identities : RecordsOf(o) = {}

\* ---------------------------------------------------------------------- C9
\* C9: create with target_amount 0 always fails with InvalidTargetAmount and
\* creates no record (and changes none).
C9_ZeroTargetRejected ==
    (last.op = "initialize" /\ ByOwner(last) /\ last.amount = 0)
    => (last.result = "InvalidTargetAmount" /\ last.untouched)

\* An owner without a record asked for a target of 0 and has no record.
C9_Witness ==
    /\ last.op = "initialize" /\ ByOwner(last) /\ last.amount = 0
    /\ last.result = "InvalidTargetAmount"
    /\ RecordsOf(last.owner) = {}

\* --------------------------------------------------------------------- C10
\* C10: right after a successful create(owner, t) the record holds owner =
\* the caller, targetAmount = t, currentBalance = 0 and a positive createdAt,
\* and its vault holds 0.
C10_FreshRecord ==
    (last.op = "initialize" /\ last.result = "Ok") =>
        /\ last.lockbox = getLockBoxPda(last.signer)
        /\ Targeted.initialized
        /\ Targeted.owner = last.signer
        /\ Targeted.targetAmount = last.amount
        /\ Targeted.currentBalance = 0
        /\ Targeted.createdAt > 0
        /\ vault[getVaultPda(last.lockbox)] = 0

\* A create with the largest target has just succeeded.
C10_Witness ==
    /\ last.op = "initialize" /\ last.result = "Ok"
    /\ Targeted.targetAmount = MaxTarget

\* --------------------------------------------------------------------- C11
\* C11: a create that names owner X but is signed by a different identity Y
\* fails (Unauthorized) and creates no record, neither for X nor for Y.
C11_CreateForSomeoneElse ==
    (last.op = "initialize" /\ last.signer # last.owner) =>
        /\ last.result = "Unauthorized"
        /\ last.untouched
        /\ lockBox[getLockBoxPda(last.owner)] = last.before

\* Y asked for a positive target on the LockBox of X while neither had a
\* record; neither has one now.
C11_Witness ==
    /\ last.op = "initialize" /\ last.signer # last.owner
    /\ last.lockbox = getLockBoxPda(last.owner)
    /\ last.amount > 0
    /\ last.result = "Unauthorized"
    /\ RecordsOf(last.owner) = {}
    /\ RecordsOf(last.signer) = {}

\* --------------------------------------------------------------------- C12
\* C12: while nothing but successful deposits d1..dn has changed the balance
\* of a record since it was created, its currentBalance is d1 + ... + dn and
\* hasReachedTarget is (currentBalance >= targetAmount).
C12_DepositsAccumulate ==
    \A l \in LockBoxAddrs :
        (journal.on /\ lockBox[l].initialized /\ journal.depositsOnly[l]) =>
            /\ lockBox[l].currentBalance = journal.deposits[l]
            /\ lockBox[l].hasReachedTarget
                   = (lockBox[l].currentBalance >= lockBox[l].targetAmount)

\* A second deposit into a record that has only seen deposits has brought it
\* to its target.
C12_Witness ==
    /\ journal.on
    /\ last.op = "deposit" /\ last.result = "Ok"
    /\ last.before.currentBalance > 0
    /\ ~last.before.hasReachedTarget
    /\ journal.depositsOnly[last.lockbox]
    /\ journal.deposits[last.lockbox] = last.before.currentBalance + last.amount
    /\ Targeted.hasReachedTarget

\* --------------------------------------------------------------------- C13
\* C13: emergencyWithdraw by the owner on a record with currentBalance > 0
\* succeeds whether or not the target was reached, moves the whole
\* currentBalance from the vault to the owner and deletes the record.
C13_EmergencyDrains ==
    (/\ last.op = "emergencyWithdraw" /\ ByOwner(last)
     /\ last.before.initialized /\ last.before.currentBalance > 0) =>
        /\ last.result = "Ok"
        /\ vault[getVaultPda(last.lockbox)]
               = last.vaultBefore - last.before.currentBalance
        /\ wallet[last.owner] = last.walletBefore + last.before.currentBalance
        /\ ~Targeted.initialized

\* The owner has drained a funded record that never reached its target.
C13_Witness ==
    /\ last.op = "emergencyWithdraw" /\ ByOwner(last)
    /\ last.before.initialized /\ last.before.currentBalance > 0
    /\ ~last.before.hasReachedTarget /\ ~last.reachedBefore
    /\ last.result = "Ok"
    /\ vault[getVaultPda(last.lockbox)] = 0
    /\ wallet[last.owner] = last.walletBefore + last.before.currentBalance
    /\ Targeted = NoAccount

\* --------------------------------------------------------------------- C14
\* C14: after a successful emergencyWithdraw or close on an owner's record,
\* and until a new create succeeds, there is no record and every deposit,
\* withdraw, emergencyWithdraw or close by that owner fails with NotFound and
\* changes no record, vault or wallet.
C14_ClosedIsGone ==
    /\ \A l \in LockBoxAddrs :
          (journal.on /\ journal.deleted[l]) => ~lockBox[l].initialized
    /\ (/\ journal.on /\ last.deletedBefore
        /\ last.op \in OwnerOnlyOps /\ ByOwner(last)) =>
           (last.result = "NotFound" /\ last.untouched)

\* The owner has tried to deposit a positive amount that the wallet covers
\* into a LockBox that was deleted before and not created again.
C14_Witness ==
    /\ journal.on /\ last.deletedBefore /\ journal.deleted[last.lockbox]
    /\ last.op = "deposit" /\ ByOwner(last)
    /\ last.amount > 0 /\ last.amount <= last.walletBefore
    /\ last.result = "NotFound"
    /\ Targeted = NoAccount

\* --------------------------------------------------------------------- C15
\* C15: emergencyWithdraw on a record with currentBalance = 0 fails with
\* InsufficientBalance and the record still exists, unchanged.
C15_EmergencyNeedsFunds ==
    (/\ last.op = "emergencyWithdraw" /\ ByOwner(last)
     /\ last.before.initialized /\ last.before.currentBalance = 0) =>
        /\ last.result = "InsufficientBalance"
        /\ last.untouched
        /\ Targeted.initialized
        /\ Targeted = last.before

\* The owner of a never-funded record has asked for an emergency withdrawal.
C15_Witness ==
    /\ last.op = "emergencyWithdraw" /\ ByOwner(last)
    /\ last.before.initialized /\ last.before.currentBalance = 0
    /\ ~last.reachedBefore
    /\ last.result = "InsufficientBalance"
    /\ Targeted = last.before

\* --------------------------------------------------------------------- C16
\* C16: close by the owner fails with InsufficientBalance and leaves the
\* record unchanged whenever currentBalance # 0, and succeeds, deleting the
\* record, exactly when currentBalance = 0 - for a never-funded record as for
\* one emptied by withdrawals.
C16_CloseNeedsEmpty ==
    (last.op = "close" /\ ByOwner(last) /\ last.before.initialized) =>
        IF last.before.currentBalance = 0
        THEN /\ last.result = "Ok"
             /\ ~Targeted.initialized
             /\ vault[getVaultPda(last.lockbox)] = last.vaultBefore
             /\ wallet[last.owner] = last.walletBefore
        ELSE /\ last.result = "InsufficientBalance"
             /\ last.untouched
             /\ Targeted = last.before

\* The owner has closed a record that had reached its target and was then
\* emptied by withdrawals.
C16_Witness ==
    /\ last.op = "close" /\ ByOwner(last)
    /\ last.before.initialized /\ last.before.currentBalance = 0
    /\ last.before.hasReachedTarget
    /\ last.result = "Ok"
    /\ Targeted = NoAccount

\* --------------------------------------------------------------------- C17
\* C17: every rejected operation, whatever the error and whoever sent it,
\* leaves every record, every vault and every wallet exactly as it was before
\* the operation.
C17_RejectedChangesNothing ==
    (last.op # "none" /\ last.result # "Ok") =>
        /\ last.untouched
        /\ Targeted = last.before
        /\ vault[getVaultPda(last.lockbox)] = last.vaultBefore
        /\ wallet[last.signer] = last.walletBefore

\* A second create on a funded record was rejected as a state conflict.
C17_Witness ==
    /\ last.op = "initialize" /\ last.result = "AlreadyExists"
    /\ last.before.currentBalance > 0
    /\ last.untouched
    /\ Targeted = last.before

\* --------------------------------------------------------------------- C18
\* C18: a deposit of amount 0 by the owner fails with InvalidDepositAmount and
\* leaves the balance unchanged, whatever the state of the record (empty or
\* funded, locked or unlocked).
C18_ZeroDepositRejected ==
    (/\ last.op = "deposit" /\ ByOwner(last)
     /\ last.before.initialized /\ last.amount = 0) =>
        /\ last.result = "InvalidDepositAmount"
        /\ Targeted.currentBalance = last.before.currentBalance
        /\ last.untouched

\* The owner of a funded record that has reached its target deposited 0.
C18_Witness ==
    /\ last.op = "deposit" /\ ByOwner(last) /\ last.amount = 0
    /\ last.before.initialized /\ last.before.hasReachedTarget
    /\ last.before.currentBalance > 0
    /\ last.result = "InvalidDepositAmount"
    /\ Targeted = last.before

\* --------------------------------------------------------------------- C19
\* C19: a deposit by the owner of more than the owner's wallet holds fails
\* with InsufficientFunds and changes neither currentBalance nor the vault
\* nor the wallet.
C19_UnfundedDepositRejected ==
    (/\ last.op = "deposit" /\ ByOwner(last)
     /\ last.before.initialized /\ last.amount > last.walletBefore) =>
        /\ last.result = "InsufficientFunds"
        /\ Targeted.currentBalance = last.before.currentBalance
        /\ vault[getVaultPda(last.lockbox)] = last.vaultBefore
        /\ wallet[last.owner] = last.walletBefore
        /\ last.untouched

\* The owner of a funded record deposited more than was left in the wallet.
C19_Witness ==
    /\ last.op = "deposit" /\ ByOwner(last)
    /\ last.before.initialized /\ last.before.currentBalance > 0
    /\ last.amount > last.walletBefore
    /\ last.result = "InsufficientFunds"
    /\ wallet[last.owner] = last.walletBefore
    /\ CustodyMatches

\* --------------------------------------------------------------------- C20
\* C20: a deposit for an owner that has no record fails with NotFound,
\* creates no record and moves no funds.
C20_DepositNeedsRecord ==
    (last.op = "deposit" /\ ByOwner(last) /\ ~last.before.initialized) =>
        /\ last.result = "NotFound"
        /\ ~Targeted.initialized
        /\ RecordsOf(last.owner) = {}
        /\ vault[getVaultPda(last.lockbox)] = last.vaultBefore
        /\ wallet[last.owner] = last.walletBefore
        /\ last.untouched

\* An owner without a record deposited a positive amount the wallet covers.
C20_Witness ==
    /\ last.op = "deposit" /\ ByOwner(last) /\ ~last.before.initialized
    /\ last.amount > 0 /\ last.amount <= last.walletBefore
    /\ last.result = "NotFound"
    /\ RecordsOf(last.owner) = {}
    /\ vault[getVaultPda(last.lockbox)] = 0

\* --------------------------------------------------------------------- C21
\* C21: the comparison with the target is inclusive: right after a deposit
\* that brings currentBalance from under the target to exactly targetAmount
\* the record is unlocked, and a withdraw by the owner of any amount within
\* the balance, submitted next, succeeds.
C21_ExactTargetUnlocks ==
    (/\ last.op = "deposit" /\ last.result = "Ok"
     /\ last.before.currentBalance < last.before.targetAmount
     /\ Targeted.currentBalance = Targeted.targetAmount) =>
        /\ Targeted.hasReachedTarget
        /\ \A a \in 1..Targeted.currentBalance :
              WithdrawResult(Targeted, last.owner, last.signer, last.lockbox, a) = "Ok"

\* A second deposit has brought a record from under its target to exactly
\* the target.
C21_Witness ==
    /\ last.op = "deposit" /\ last.result = "Ok"
    /\ 0 < last.before.currentBalance
    /\ last.before.currentBalance < last.before.targetAmount
    /\ ~last.before.hasReachedTarget
    /\ Targeted.currentBalance = Targeted.targetAmount
    /\ Targeted.hasReachedTarget

\* ------------------------------------------------------------- C22 and C23
\* What a LockBox at l and the receipt of the latest request on it show when
\* that request was a scripted step.
Yields(step, l) ==
    /\ lockBox[l].initialized = step.exists
    /\ step.exists => /\ lockBox[l].currentBalance = step.balance
                      /\ lockBox[l].hasReachedTarget = step.reached
    /\ vault[getVaultPda(l)] = step.balance
    /\ last.lockbox = l => /\ last.op = step.op
                           /\ last.result = step.result
                           /\ wallet[last.owner] = last.walletBefore + step.gain

\* C22: create(target 5), deposit(2), deposit(2), withdraw, deposit(1),
\* withdraw(2), withdraw(1), close, withdraw(2), close on an address without
\* a record yield, step by step: balance 2, balance 4, TargetNotReached with
\* balance 4, balance 5 with hasReachedTarget, balance 3, balance 2,
\* InsufficientBalance with balance 2, balance 0, the record gone.
C22_SavingsScenario ==
    \A l \in LockBoxAddrs :
        journal.savings[l] > 0 => Yields(Savings[journal.savings[l]], l)

\* The last step of the scenario, the closing of the emptied LockBox, has
\* just been made.
C22_Witness ==
    /\ journal.scripted
    /\ last.op = "close" /\ last.result = "Ok"
    /\ journal.savings[last.lockbox] = Len(Savings)
    /\ Targeted = NoAccount

\* C23: create(target 3), deposit(2), emergencyWithdraw on an address without
\* a record pay 2 to the owner and delete the record; an emergencyWithdraw
\* and then a deposit that follow fail with NotFound.
C23_EmergencyScenario ==
    \A l \in LockBoxAddrs :
        journal.emergency[l] > 0 => Yields(Emergency[journal.emergency[l]], l)

\* The last step of the scenario, the deposit into the deleted LockBox, has
\* just been refused.
C23_Witness ==
    /\ journal.scripted
    /\ last.op = "deposit" /\ last.amount > 0 /\ last.result = "NotFound"
    /\ journal.emergency[last.lockbox] = Len(Emergency)
    /\ wallet[last.owner] = ScenarioFunds

\* --------------------------------------------------------------------- C26
\* C26: a withdraw of amount 0 by the owner on a record whose target has been
\* reached fails with InsufficientBalance and changes no balance.
C26_ZeroWithdrawRejected ==
    (/\ last.op = "withdraw" /\ ByOwner(last)
     /\ last.before.initialized /\ last.before.hasReachedTarget
     /\ last.amount = 0) =>
        /\ last.result = "InsufficientBalance"
        /\ Targeted.currentBalance = last.before.currentBalance
        /\ last.untouched

\* The owner of an unlocked, funded record has asked to withdraw 0.
C26_Witness ==
    /\ last.op = "withdraw" /\ ByOwner(last) /\ last.amount = 0
    /\ last.before.initialized /\ last.before.hasReachedTarget
    /\ last.before.currentBalance > 0
    /\ last.result = "InsufficientBalance"
    /\ Targeted = last.before

\* --------------------------------------------------------------------- C27
\* C27: owner, targetAmount and createdAt of a record never change between
\* its creation and its deletion: every operation, successful or rejected,
\* that finds the record and leaves it in place leaves the three as they were.
C27_IdentityImmutable ==
    (last.op # "none" /\ last.before.initialized /\ Targeted.initialized) =>
        /\ Targeted.owner = last.before.owner
        /\ Targeted.targetAmount = last.before.targetAmount
        /\ Targeted.createdAt = last.before.createdAt

\* A withdraw has lowered the balance of a record and left its owner, target
\* and creation time alone.
C27_Witness ==
    /\ last.op = "withdraw" /\ last.result = "Ok"
    /\ last.before.currentBalance > 0
    /\ Targeted.initialized
    /\ Targeted.currentBalance < last.before.currentBalance
    /\ Targeted.owner = last.before.owner
    /\ Targeted.targetAmount = last.before.targetAmount
    /\ Targeted.createdAt = last.before.createdAt

\* --------------------------------------------------------------------- C29
\* C29: in every reachable state every existing record has targetAmount > 0
\* and currentBalance >= 0, and so has its vault: no withdraw and no
\* emergencyWithdraw takes more than there is.
C29_RecordWellFormed ==
    \A l \in LockBoxAddrs :
        lockBox[l].initialized =>
            /\ lockBox[l].targetAmount > 0
            /\ lockBox[l].currentBalance >= 0
            /\ vault[getVaultPda(l)] >= 0

\* A withdraw of the largest amount has emptied a record.
C29_Witness ==
    /\ last.op = "withdraw" /\ last.result = "Ok"
    /\ last.amount = MaxAmount
    /\ Targeted.initialized
    /\ Targeted.targetAmount > 0
    /\ Targeted.currentBalance = 0

\* --------------------------------------------------------------------- C28
\* The accounts now, and the requests another owner than the one of the last
\* transaction can submit for the own LockBox.
World == [lockBox |-> lockBox, vault |-> vault, wallet |-> wallet]

RequestsOfOthers ==
    {[op |-> op, owner |-> r[1], signer |-> r[2], lockbox |-> r[3], amount |-> a] :
        op \in OwnerOnlyOps \cup {"initialize"},
        r \in {q \in Requests : q[1] # last.owner /\ q[3] = getLockBoxPda(q[1])},
        a \in Amounts \cup Targets}

\* C28: an operation submitted for owner A, successful or rejected, leaves
\* the record and the vault of every other owner B (and B's wallet) as they
\* were, and it commutes with every operation for B: landing after B's
\* operation it leaves the accounts that B's operation, landing after it,
\* leaves now.
C28_OwnersIndependent ==
    last.op # "none" =>
        /\ World = Applied(last.world, last.op, last.owner, last.signer,
                           last.lockbox, last.amount, MaxTime)
        /\ \A l \in LockBoxAddrs \ {getLockBoxPda(last.owner)} :
              /\ lockBox[l] = last.world.lockBox[l]
              /\ vault[getVaultPda(l)] = last.world.vault[getVaultPda(l)]
        /\ \A o \in Identities \ {last.owner} : wallet[o] = last.world.wallet[o]
        /\ \A b \in RequestsOfOthers :
              Applied(World, b.op, b.owner, b.signer, b.lockbox, b.amount, MaxTime)
                  = Applied(Applied(last.world, b.op, b.owner, b.signer, b.lockbox,
                                    b.amount, MaxTime),
                            last.op, last.owner, last.signer, last.lockbox,
                            last.amount, MaxTime)

\* One owner has withdrawn from the own record while the other owner holds a
\* funded record, which is as it was.
C28_Witness ==
    /\ last.op = "withdraw" /\ last.result = "Ok" /\ ByOwner(last)
    /\ \E l \in LockBoxAddrs \ {last.lockbox} :
          /\ lockBox[l].initialized /\ lockBox[l].currentBalance > 0
          /\ lockBox[l] = last.world.lockBox[l]
          /\ vault[getVaultPda(l)] = lockBox[l].currentBalance

\* --------------------------------------------------------------------- C30
\* C30: the read query useGetLockBox changes no record and no balance; for an
\* address whose LockBox exists it returns the record's owner, targetAmount,
\* currentBalance, createdAt and hasReachedTarget, and for an address with no
\* LockBox (never created, or deleted by closeLockbox or emergencyWithdraw)
\* it returns null.
C30_ReadIsPure ==
    last.op = "getLockBox" =>
        /\ World = last.world
        /\ IF last.owner \in Identities /\ lockBox[getLockBoxPda(last.owner)].initialized
           THEN /\ last.data.found
                /\ last.data.address = getLockBoxPda(last.owner)
                /\ last.data.data.owner = last.owner
                /\ last.data.data.targetAmount = Targeted.targetAmount
                /\ last.data.data.currentBalance = Targeted.currentBalance
                /\ last.data.data.createdAt = Targeted.createdAt
                /\ last.data.data.hasReachedTarget = Targeted.hasReachedTarget
           ELSE ~last.data.found

\* A read of the address of a LockBox that was deleted returns null.
C30_Witness ==
    /\ last.op = "getLockBox"
    /\ last.owner \in Identities
    /\ journal.deleted[last.lockbox]
    /\ ~last.data.found

\* --------------------------------------------------------------------- C24
\* C24: with deposit, withdraw, emergencyWithdraw and close transactions of
\* several sessions in flight against one record, every transaction executes
\* as one step on the accounts left by the transactions executed before it
\* (the outcome is that of the serial order in which they were executed), a
\* withdraw or deposit is validated against the balance at that moment and
\* not an earlier one, and in every state in between the vault holds exactly
\* the record's currentBalance.
C24_Serialized ==
    /\ CustodyMatches
    /\ \A v \in VaultAddrs : vault[v] >= 0
    /\ last.op # "none" =>
          /\ World = Applied(last.world, last.op, last.owner, last.signer,
                             last.lockbox, last.amount, MaxTime)
          /\ last.before = last.world.lockBox[last.lockbox]
          /\ (last.op = "withdraw" /\ last.result = "Ok") =>
                /\ last.amount <= last.world.lockBox[last.lockbox].currentBalance
                /\ Targeted.currentBalance =
                      last.world.lockBox[last.lockbox].currentBalance - last.amount
          /\ (last.op = "deposit" /\ last.result = "Ok") =>
                Targeted.currentBalance =
                    last.world.lockBox[last.lockbox].currentBalance + last.amount
          /\ (last.op \in {"emergencyWithdraw", "close"} /\ last.result = "Ok") =>
                /\ last.world.lockBox[last.lockbox].initialized
                /\ ~Targeted.initialized

\* A withdraw was executed while another session's withdraw is still in
\* flight that the balance covered before and no longer covers.
C24_Witness ==
    /\ last.op = "withdraw"
    /\ last.result = "Ok"
    /\ \E s \in Sessions :
          /\ inflight[s].op = "withdraw"
          /\ inflight[s].amount <= last.before.currentBalance
          /\ inflight[s].amount > Targeted.currentBalance

\* --------------------------------------------------------------------- C32
\* C32: fees and rent apart, every successful deposit, withdraw and
\* emergencyWithdraw leaves the sum of the owner's wallet and the owner's
\* vault as it was: a deposit of a takes a from the wallet, a withdraw of a
\* gives it a, an emergencyWithdraw gives it the whole balance of the
\* record, and no other identity's wallet changes.
C32_FundsConserved ==
    (last.op \in {"deposit", "withdraw", "emergencyWithdraw"} /\ last.result = "Ok") =>
        LET pool == getVaultPda(last.lockbox) IN
        /\ wallet[last.owner] + vault[pool] =
              last.world.wallet[last.owner] + last.world.vault[pool]
        /\ last.op = "deposit" =>
              wallet[last.owner] = last.world.wallet[last.owner] - last.amount
        /\ last.op = "withdraw" =>
              wallet[last.owner] = last.world.wallet[last.owner] + last.amount
        /\ last.op = "emergencyWithdraw" =>
              wallet[last.owner] =
                  last.world.wallet[last.owner] + last.before.currentBalance
        /\ \A o \in Identities \ {last.owner} : wallet[o] = last.world.wallet[o]

\* An emergencyWithdraw paid a funded record out while the other identity
\* holds a funded record too.
C32_Witness ==
    /\ last.op = "emergencyWithdraw"
    /\ last.result = "Ok"
    /\ last.before.currentBalance > 0
    /\ wallet[last.owner] = InitialFunds
    /\ \E l \in LockBoxAddrs \ {last.lockbox} :
          lockBox[l].initialized /\ lockBox[l].currentBalance > 0

\* --------------------------------------------------------------------- C33
\* C33: funds are never locked for good: in every reachable state the owner
\* of every existing record can end it in one step whatever the target is,
\* by exactly one of closeLockbox (accepted when currentBalance = 0) and
\* emergencyWithdraw (accepted when currentBalance > 0), and that step
\* deletes the record and leaves the owner with the whole balance.
C33_AlwaysRecoverable ==
    /\ \A o \in Identities :
          LET l == getLockBoxPda(o)
              box == lockBox[l]
              drains == EmergencyWithdrawResult(box, o, o, l) = "Ok"
              closes == CloseResult(box, o, o, l) = "Ok"
              exit == IF drains THEN "emergencyWithdraw" ELSE "close"
              w == Applied(World, exit, o, o, l, 0, MaxTime)
          IN  box.initialized =>
                /\ drains <=> box.currentBalance > 0
                /\ closes <=> box.currentBalance = 0
                /\ drains # closes
                /\ ~w.lockBox[l].initialized
                /\ w.vault[getVaultPda(l)] = 0
                /\ w.wallet[o] = wallet[o] + box.currentBalance
    /\ (last.op = "emergencyWithdraw" /\ ByOwner(last) /\ last.before.initialized) =>
          (last.result = "Ok" <=> last.before.currentBalance > 0)
    /\ (last.op = "close" /\ ByOwner(last) /\ last.before.initialized) =>
          (last.result = "Ok" <=> last.before.currentBalance = 0)
    /\ (last.op \in {"emergencyWithdraw", "close"} /\ last.result = "Ok") =>
          /\ ~Targeted.initialized
          /\ vault[getVaultPda(last.lockbox)] = 0
          /\ wallet[last.owner] = last.walletBefore + last.before.currentBalance

\* The owner left a record that held funds under its target and was locked
\* for withdraw, and has all the funds back, while the other identity's
\* record is empty and under its target.
C33_Witness ==
    /\ last.op = "emergencyWithdraw"
    /\ last.result = "Ok"
    /\ ~last.reachedBefore
    /\ last.before.currentBalance < last.before.targetAmount
    /\ wallet[last.owner] = InitialFunds
    /\ \E l \in LockBoxAddrs \ {last.lockbox} :
          /\ lockBox[l].initialized
          /\ lockBox[l].currentBalance = 0
          /\ ~lockBox[l].hasReachedTarget

\* --------------------------------------------------------------------- C34
\* C34: after an owner's record was deleted by closeLockbox or by
\* emergencyWithdraw, an initialize by the same owner with a target > 0
\* succeeds and the record it creates is fresh: the target given,
\* currentBalance 0, hasReachedTarget false, an empty vault, nothing of the
\* deleted record.
C34_FreshAfterDelete ==
    (/\ journal.on /\ last.deletedBefore
     /\ last.op = "initialize" /\ ByOwner(last) /\ last.amount > 0) =>
        /\ ~last.before.initialized
        /\ last.result = "Ok"
        /\ Targeted = NewLockBox(last.owner, last.amount, MaxTime)
        /\ Targeted.targetAmount = last.amount
        /\ Targeted.currentBalance = 0
        /\ ~Targeted.hasReachedTarget
        /\ ~reachedOnce[last.lockbox]
        /\ vault[getVaultPda(last.lockbox)] = 0
        /\ journal.deposits[last.lockbox] = 0
        /\ ~journal.deleted[last.lockbox]
        /\ WithdrawResult(Targeted, last.owner, last.owner, last.lockbox, 1)
               = "TargetNotReached"

\* The owner has created a LockBox again at the address of a deleted one,
\* with all the funds back in the wallet.
C34_Witness ==
    /\ journal.on /\ last.deletedBefore
    /\ last.op = "initialize" /\ ByOwner(last)
    /\ last.result = "Ok"
    /\ Targeted.initialized
    /\ Targeted.targetAmount = MaxTarget
    /\ wallet[last.owner] = InitialFunds

\* --------------------------------------------------------------------- C31
Mutations == {"initialize", "deposit", "withdraw", "emergencyWithdraw", "close"}

\* The entry is served to the reader as it is.
Served(entry) == entry.present /\ ~entry.invalidated

\* C31: after every successful initialize, deposit, withdraw,
\* emergencyWithdraw or close sent through the hooks, the client's
\* get-lockbox entry for the address is invalidated, so that a read begun
\* afterwards returns what the LockBox holds now and not what it held before
\* the operation; a mutation that failed leaves the entry as it was.
C31_CacheInvalidated ==
    /\ (last.op \in Mutations /\ last.result = "Ok") =>
          /\ ~Served(cache[last.owner])
          /\ last.cached.present => cache[last.owner].invalidated
    /\ (last.op \in Mutations /\ last.result # "Ok") =>
          cache[last.owner] = last.cached
    /\ \A o \in Identities :
          Served(cache[o]) => cache[o].data = queryFn(o)
    /\ last.op = "getLockBox" =>
          /\ last.data = queryFn(last.owner)
          /\ Served(cache[last.owner])

\* A read begun after a successful deposit found the entry invalidated and
\* returned the record with the new balance in place of the cached one.
C31_Witness ==
    /\ last.op = "getLockBox"
    /\ last.cached.present /\ last.cached.invalidated
    /\ last.cached.data.found /\ last.data.found
    /\ last.data.data.currentBalance > last.cached.data.data.currentBalance

====
